---- MODULE Spec2Model ----
(***************************************************************************)
(* The CPS dataset generation of openfisca_us/data/datasets/cps/cps.py:    *)
(* CPS.generate(year) and the five passes it runs over the output file     *)
(* (add_id_variables, add_personal_variables,                              *)
(* add_personal_income_variables, add_spm_variables,                       *)
(* add_household_variables).                                               *)
(*                                                                         *)
(* Representation of numbers.                                              *)
(*  - A raw weight divided by 1e2 is kept as the exact decimal             *)
(*    [int |-> x \div 100, frac |-> x % 100].                              *)
(*  - The age column is a float column (np.where of a float array and an   *)
(*    integer column).  A float is kept as an integer count of units of    *)
(*    2^-MantissaBits; float arithmetic rounds to MantissaBits significant *)
(*    bits, to nearest, ties to even (IEEE-754; a double has 53 bits).     *)
(***************************************************************************)
EXTENDS Integers, Sequences, FiniteSets, TLC

VARIABLES
    year,       \* the argument of generate
    rawYears,   \* RawCPS.years: the years whose raw tables are materialized
    startYears, \* RawCPS.years as it was when the current run started
    raw,        \* the five raw tables RawCPS.load(year) gives
    missing,    \* a raw table or raw field that the raw data lacks, or "none"
    pc,         \* position of the current run inside generate
    rawOpen,    \* the raw_data handle: "unopened", "open" or "closed"
    cpsOpen,    \* the cps handle (h5py.File): "unopened", "open" or "closed"
    fileExists, \* whether a file exists at self.file(year)
    cps,        \* the columns of the file at self.file(year): name -> array
    log,        \* what the current run did so far, in order
    run,        \* number of the current run of generate on this input
    prev        \* the columns the previous completed run left in the file

vars == <<year, rawYears, startYears, raw, missing, pc, rawOpen, cpsOpen,
          fileExists, cps, log, run, prev>>

----------------------------------------------------------------------------
(* Bounds of the model *)

MaxPersons == 2
MaxRuns == 2
MantissaBits == 8

Years == {2020, 2021}
InitialRawYears == {2020}

HSeqs == {1, 2}
FamPos == {1, 11}
TaxIds == {1, 2}
Ages == {0, 79, 80, 85, 86}
OtherIncome == {<<2, 500>>, <<13, 250>>, <<20, 300>>, <<7, 100>>}

----------------------------------------------------------------------------
(* Generic helpers *)

RECURSIVE Pow2(_)
Pow2(n) == IF n = 0 THEN 1 ELSE 2 * Pow2(n - 1)

Range(s) == {s[i] : i \in DOMAIN s}

\* the distinct elements of s in the order of their first appearance
RECURSIVE DistinctInOrder(_)
DistinctInOrder(s) ==
    IF s = <<>> THEN <<>>
    ELSE LET n == Len(s)
             front == DistinctInOrder(SubSeq(s, 1, n - 1))
         IN IF s[n] \in Range(front) THEN front ELSE Append(front, s[n])

\* the elements of a set of integers in ascending order
RECURSIVE SortedSeq(_)
SortedSeq(S) ==
    IF S = {} THEN <<>>
    ELSE LET m == CHOOSE x \in S : \A y \in S : x <= y
         IN <<m>> \o SortedSeq(S \ {m})

Orderings(S) ==
    {s \in [1..Cardinality(S) -> S] :
        \A i, j \in 1..Cardinality(S) : i # j => s[i] # s[j]}

----------------------------------------------------------------------------
(* The raw tables RawCPS.load(year) gives: person, tax_unit, family,       *)
(* spm_unit, household (cps.py lines 36-45).  The tax_unit and spm_unit    *)
(* tables are made from the person table (docstring, lines 70-74), so they *)
(* hold the TAX_IDs and SPM_IDs of the persons; the row order of the       *)
(* tax_unit table is not fixed by this file and is left open.              *)

RawTables == {"person", "tax_unit", "family", "spm_unit", "household"}

\* the raw SPM-unit fields that are values of SPM_RENAMES, in its order
SpmAsecFields ==
    <<"SPM_TOTVAL", "SPM_SNAPSUB", "SPM_CAPHOUSESUB", "SPM_SCHLUNCH",
      "SPM_ENGVAL", "SPM_WICVAL", "SPM_FICA", "SPM_FEDTAX", "SPM_STTAX",
      "SPM_CAPWKCCXPNS", "SPM_MEDXPNS", "SPM_POVTHRESHOLD", "SPM_RESOURCES">>

FieldNo(f) == CHOOSE i \in DOMAIN SpmAsecFields : SpmAsecFields[i] = f

KeyChoice == [PH_SEQ : HSeqs, PF_SEQ : FamPos, TAX_ID : TaxIds]

DefaultKey == [PH_SEQ |-> 1, PF_SEQ |-> 1, TAX_ID |-> 1]

\* P_SEQ numbers the persons of one household
PSeqOf(keys, i) ==
    1 + Cardinality({j \in 1..(i - 1) : keys[j].PH_SEQ = keys[i].PH_SEQ})

PersonRow(k, pseq, age, oi) ==
    [PH_SEQ |-> k.PH_SEQ, P_SEQ |-> pseq, PF_SEQ |-> k.PF_SEQ,
     TAX_ID |-> k.TAX_ID, SPM_ID |-> k.PH_SEQ * 10 + 1,
     A_FNLWGT |-> 120 + pseq, A_AGE |-> age,
     WSAL_VAL |-> 1000 + pseq, SEMP_VAL |-> 2000 + pseq,
     FRSE_VAL |-> 3000 + pseq, SS_VAL |-> 4000 + pseq,
     UC_VAL |-> 5000 + pseq, OI_OFF |-> oi[1], OI_VAL |-> oi[2]]

SpmUnitRow(id) ==
    [f \in {"SPM_ID", "SPM_WEIGHT"} \cup Range(SpmAsecFields) |->
        IF f = "SPM_ID" THEN id
        ELSE IF f = "SPM_WEIGHT" THEN 10 * id + 5
        ELSE 100 * FieldNo(f) + id]

HouseholdRow(h) == [H_SEQ |-> h, HSUP_WGT |-> 300 + h, GESTFIPS |-> 5 + h]

FamilyKeys(keys) ==
    DistinctInOrder([i \in DOMAIN keys |-> <<keys[i].PH_SEQ, keys[i].PF_SEQ>>])

PersonTaxIds(keys) == {keys[i].TAX_ID : i \in DOMAIN keys}

\* the raw weight of the j-th row of the family table: every family has
\* its own
FamilyWgt(j) == 100 + 75 * j

Tables(keys, ages, ois, fam, tu) ==
    LET spm == DistinctInOrder([i \in DOMAIN keys |-> keys[i].PH_SEQ * 10 + 1])
        hh  == DistinctInOrder([i \in DOMAIN keys |-> keys[i].PH_SEQ])
    IN [person    |-> [i \in DOMAIN keys |->
                          PersonRow(keys[i], PSeqOf(keys, i), ages[i], ois[i])],
        family    |-> [j \in DOMAIN fam |->
                          [FH_SEQ |-> fam[j][1], FFPOS |-> fam[j][2],
                           FSUP_WGT |-> FamilyWgt(j)]],
        tax_unit  |-> [j \in DOMAIN tu |-> [TAX_ID |-> tu[j]]],
        spm_unit  |-> [j \in DOMAIN spm |-> SpmUnitRow(spm[j])],
        household |-> [j \in DOMAIN hh |-> HouseholdRow(hh[j])]]

Rows == 1..MaxPersons
DefaultKeys == [i \in Rows |-> DefaultKey]
DefaultAges == [i \in Rows |-> 40]
DefaultOI == [i \in Rows |-> <<0, 0>>]

\* person tables that vary in the keys, with every order of the family
\* table and of the tax_unit table
KeyTableSets ==
    UNION {
      UNION {
        {Tables(keys, DefaultAges, DefaultOI, fam, tu) :
            tu \in Orderings(PersonTaxIds(keys))} :
        fam \in Orderings(Range(FamilyKeys(keys)))} :
      keys \in [Rows -> KeyChoice]}

\* person tables that vary in the raw age
AgeTableSets ==
    {Tables(DefaultKeys, ages, DefaultOI, <<<<1, 1>>>>, <<1>>) :
        ages \in [Rows -> Ages]}

\* person tables that vary in the other-income type code and amount
IncomeTableSets ==
    {Tables(DefaultKeys, DefaultAges, ois, <<<<1, 1>>>>, <<1>>) :
        ois \in [Rows -> OtherIncome]}

DefaultTables == Tables(DefaultKeys, DefaultAges, DefaultOI, <<<<1, 1>>>>, <<1>>)

----------------------------------------------------------------------------
(* Arithmetic of the passes *)

\* x / 1e2 (lines 90, 91, 103, 105), as an exact decimal
Div1e2(x) == [int |-> x \div 100, frac |-> x % 100]

\* a float holding the integer n exactly, in units of 2^-MantissaBits
FloatOfInt(n) == n * Pow2(MantissaBits)

\* the spacing of the floats around x (x in units of 2^-MantissaBits)
RECURSIVE Ulp(_)
Ulp(x) == IF x < Pow2(MantissaBits) THEN 1 ELSE 2 * Ulp(x \div 2)

\* x rounded to a float: to the nearest multiple of the spacing, ties to even
FloatRound(x) ==
    LET u == Ulp(x)
        q == x \div u
        rem == x % u
    IN IF 2 * rem < u THEN q * u
       ELSE IF 2 * rem > u THEN (q + 1) * u
       ELSE IF q % 2 = 0 THEN q * u ELSE (q + 1) * u

\* np.random.rand gives a float of [0, 1): k / 2^MantissaBits with
\* 0 <= k < 2^MantissaBits.  The draws tried: 0, 1/2 and the largest.
RandDraws == {0, Pow2(MantissaBits - 1), Pow2(MantissaBits) - 1}

\* 80 + 5 * r (line 124): a float product, then a float sum
Jitter(r) == FloatRound(FloatOfInt(80) + FloatRound(5 * r))

\* Series.between(80, 85) (line 123): both ends included
IsTopCoded(age) == 80 <= age /\ age <= 85

BoolToInt(b) == IF b THEN 1 ELSE 0

\* a variant of line 144 that also takes the alimony code as a pension
PensionMutant(code) == code \in {2, 13, 20}

\* other_inc_type.isin((2, 13)) (line 144)
IsPensionCode(code) == code \in {2, 13}

\* person.OI_OFF == 20 (line 147)
IsAlimonyCode(code) == code = 20

\* a variant of lines 99-101 with .last() in place of .first()
GroupByLast(values, keys) ==
    LET ks == SortedSeq(Range(keys))
    IN [j \in DOMAIN ks |->
           values[CHOOSE i \in DOMAIN keys :
                     /\ keys[i] = ks[j]
                     /\ \A h \in DOMAIN keys : keys[h] = ks[j] => h <= i]]

\* Series.groupby(keys).first() (lines 99-101): the groups come sorted by
\* key, each with the first of its values in row order
GroupByFirst(values, keys) ==
    LET ks == SortedSeq(Range(keys))
    IN [j \in DOMAIN ks |->
           values[CHOOSE i \in DOMAIN keys :
                     /\ keys[i] = ks[j]
                     /\ \A h \in DOMAIN keys : keys[h] = ks[j] => i <= h]]

\* family_weight[label] for one label (line 98): the values at every
\* position of the index that holds the label, in order
RECURSIVE LookupLabel(_, _, _)
LookupLabel(index, values, label) ==
    IF index = <<>> THEN <<>>
    ELSE LET n == Len(index)
             front == LookupLabel(SubSeq(index, 1, n - 1),
                                  SubSeq(values, 1, n - 1), label)
         IN IF index[n] = label THEN Append(front, values[n]) ELSE front

\* family_weight[person_family_id] (line 98): the lookups of all labels, joined
RECURSIVE LookupAll(_, _, _)
LookupAll(index, values, labels) ==
    IF labels = <<>> THEN <<>>
    ELSE LookupAll(index, values, SubSeq(labels, 1, Len(labels) - 1))
           \o LookupLabel(index, values, labels[Len(labels)])

----------------------------------------------------------------------------
(* The statements of the passes.  Each statement writes one column of the  *)
(* file: col is the column, needs the raw fields its right-hand side takes *)
(* from the raw tables, reads the columns it reads back from the file,     *)
(* in the order of the reads.                                              *)

Stmt(col, needs, reads) == [col |-> col, needs |-> needs, reads |-> reads]

\* add_id_variables, lines 78-105
IdStatements ==
    <<Stmt("person_id", {"person.PH_SEQ", "person.P_SEQ"}, <<>>),
      Stmt("family_id", {"family.FH_SEQ", "family.FFPOS"}, <<>>),
      Stmt("household_id", {"household.H_SEQ"}, <<>>),
      Stmt("person_tax_unit_id", {"person.TAX_ID"}, <<>>),
      Stmt("person_spm_unit_id", {"person.SPM_ID"}, <<>>),
      Stmt("tax_unit_id", {"tax_unit.TAX_ID"}, <<>>),
      Stmt("spm_unit_id", {"spm_unit.SPM_ID"}, <<>>),
      Stmt("person_household_id", {"person.PH_SEQ"}, <<>>),
      Stmt("person_family_id", {"person.PH_SEQ", "person.PF_SEQ"}, <<>>),
      Stmt("person_weight", {"person.A_FNLWGT"}, <<>>),
      Stmt("family_weight", {"family.FSUP_WGT"}, <<>>),
      Stmt("tax_unit_weight", {},
           <<"family_weight", "family_id", "person_family_id",
             "person_tax_unit_id">>),
      Stmt("spm_unit_weight", {"spm_unit.SPM_WEIGHT"}, <<>>),
      Stmt("household_weight", {"household.HSUP_WGT"}, <<>>)>>

\* add_personal_variables, lines 122-126
PersonalStatements == <<Stmt("age", {"person.A_AGE"}, <<>>)>>

\* add_personal_income_variables, lines 136-147
IncomeStatements ==
    <<Stmt("employment_income", {"person.WSAL_VAL"}, <<>>),
      Stmt("self_employment_income", {"person.SEMP_VAL"}, <<>>),
      Stmt("e02100", {"person.FRSE_VAL"}, <<>>),
      Stmt("social_security", {"person.SS_VAL"}, <<>>),
      Stmt("e02300", {"person.UC_VAL"}, <<>>),
      Stmt("e01500", {"person.OI_OFF", "person.OI_VAL"}, <<>>),
      Stmt("e00800", {"person.OI_OFF", "person.OI_VAL"}, <<>>)>>

\* a variant of SPM_RENAMES in which snap takes the raw field of
\* spm_unit_total_income
SpmRenamesShared ==
    <<<<"spm_unit_total_income", "SPM_TOTVAL">>,
      <<"snap", "SPM_TOTVAL">>,
      <<"spm_unit_capped_housing_subsidy", "SPM_CAPHOUSESUB">>,
      <<"free_school_meals", "SPM_SCHLUNCH">>,
      <<"spm_unit_energy_subsidy", "SPM_ENGVAL">>,
      <<"spm_unit_wic", "SPM_WICVAL">>,
      <<"spm_unit_fica", "SPM_FICA">>,
      <<"spm_unit_federal_tax", "SPM_FEDTAX">>,
      <<"spm_unit_state_tax", "SPM_STTAX">>,
      <<"spm_unit_work_childcare_expenses", "SPM_CAPWKCCXPNS">>,
      <<"spm_unit_medical_expenses", "SPM_MEDXPNS">>,
      <<"spm_unit_spm_threshold", "SPM_POVTHRESHOLD">>,
      <<"spm_unit_net_income_reported", "SPM_RESOURCES">>>>

\* SPM_RENAMES, lines 151-165: canonical name and raw field, in dict order
SPM_RENAMES ==
    <<<<"spm_unit_total_income", "SPM_TOTVAL">>,
      <<"snap", "SPM_SNAPSUB">>,
      <<"spm_unit_capped_housing_subsidy", "SPM_CAPHOUSESUB">>,
      <<"free_school_meals", "SPM_SCHLUNCH">>,
      <<"spm_unit_energy_subsidy", "SPM_ENGVAL">>,
      <<"spm_unit_wic", "SPM_WICVAL">>,
      <<"spm_unit_fica", "SPM_FICA">>,
      <<"spm_unit_federal_tax", "SPM_FEDTAX">>,
      <<"spm_unit_state_tax", "SPM_STTAX">>,
      <<"spm_unit_work_childcare_expenses", "SPM_CAPWKCCXPNS">>,
      <<"spm_unit_medical_expenses", "SPM_MEDXPNS">>,
      <<"spm_unit_spm_threshold", "SPM_POVTHRESHOLD">>,
      <<"spm_unit_net_income_reported", "SPM_RESOURCES">>>>

\* the raw field SPM_RENAMES gives for a canonical name
AsecVariable(name) ==
    SPM_RENAMES[CHOOSE i \in DOMAIN SPM_RENAMES : SPM_RENAMES[i][1] = name][2]

\* add_spm_variables, lines 167-170: the loop over SPM_RENAMES, then
\* reduced_price_school_meals
SpmStatements ==
    [i \in DOMAIN SPM_RENAMES |->
        Stmt(SPM_RENAMES[i][1], {"spm_unit." \o SPM_RENAMES[i][2]}, <<>>)]
    \o <<Stmt("reduced_price_school_meals", {}, <<"free_school_meals">>)>>

\* add_household_variables, line 174
HouseholdStatements == <<Stmt("fips", {"household.GESTFIPS"}, <<>>)>>

AllStatements ==
    IdStatements \o PersonalStatements \o IncomeStatements \o SpmStatements
      \o HouseholdStatements

\* every raw field the passes take from the raw tables
AllRawFields == UNION {AllStatements[i].needs : i \in DOMAIN AllStatements}

\* every column a complete file holds
RequiredColumns == {AllStatements[i].col : i \in DOMAIN AllStatements}

----------------------------------------------------------------------------
(* What a statement writes.  r is the raw tables, c the columns of the     *)
(* file so far, rnd the draws of np.random.rand(len(person)).              *)

SpmNames == {SPM_RENAMES[i][1] : i \in DOMAIN SPM_RENAMES}

ColumnValue(col, r, c, rnd) ==
    CASE col = "person_id" ->
           [i \in DOMAIN r.person |->
               r.person[i].PH_SEQ * 100 + r.person[i].P_SEQ]
      [] col = "family_id" ->
           [j \in DOMAIN r.family |->
               r.family[j].FH_SEQ * 10 + r.family[j].FFPOS]
      [] col = "household_id" ->
           [j \in DOMAIN r.household |-> r.household[j].H_SEQ]
      [] col = "person_tax_unit_id" ->
           [i \in DOMAIN r.person |-> r.person[i].TAX_ID]
      [] col = "person_spm_unit_id" ->
           [i \in DOMAIN r.person |-> r.person[i].SPM_ID]
      [] col = "tax_unit_id" ->
           [j \in DOMAIN r.tax_unit |-> r.tax_unit[j].TAX_ID]
      [] col = "spm_unit_id" ->
           [j \in DOMAIN r.spm_unit |-> r.spm_unit[j].SPM_ID]
      [] col = "person_household_id" ->
           [i \in DOMAIN r.person |-> r.person[i].PH_SEQ]
      [] col = "person_family_id" ->
           [i \in DOMAIN r.person |->
               r.person[i].PH_SEQ * 10 + r.person[i].PF_SEQ]
      [] col = "person_weight" ->
           [i \in DOMAIN r.person |-> Div1e2(r.person[i].A_FNLWGT)]
      [] col = "family_weight" ->
           [j \in DOMAIN r.family |-> Div1e2(r.family[j].FSUP_WGT)]
      [] col = "tax_unit_weight" ->
           GroupByFirst(LookupAll(c["family_id"], c["family_weight"],
                                  c["person_family_id"]),
                        c["person_tax_unit_id"])
      [] col = "spm_unit_weight" ->
           [j \in DOMAIN r.spm_unit |-> Div1e2(r.spm_unit[j].SPM_WEIGHT)]
      [] col = "household_weight" ->
           [j \in DOMAIN r.household |-> Div1e2(r.household[j].HSUP_WGT)]
      [] col = "age" ->
           [i \in DOMAIN r.person |->
               IF IsTopCoded(r.person[i].A_AGE)
               THEN Jitter(rnd[i])
               ELSE FloatOfInt(r.person[i].A_AGE)]
      [] col = "employment_income" ->
           [i \in DOMAIN r.person |-> r.person[i].WSAL_VAL]
      [] col = "self_employment_income" ->
           [i \in DOMAIN r.person |-> r.person[i].SEMP_VAL]
      [] col = "e02100" ->
           [i \in DOMAIN r.person |-> r.person[i].FRSE_VAL]
      [] col = "social_security" ->
           [i \in DOMAIN r.person |-> r.person[i].SS_VAL]
      [] col = "e02300" ->
           [i \in DOMAIN r.person |-> r.person[i].UC_VAL]
      [] col = "e01500" ->
           [i \in DOMAIN r.person |->
               BoolToInt(IsPensionCode(r.person[i].OI_OFF))
                 * r.person[i].OI_VAL]
      [] col = "e00800" ->
           [i \in DOMAIN r.person |->
               BoolToInt(IsAlimonyCode(r.person[i].OI_OFF))
                 * r.person[i].OI_VAL]
      [] col \in SpmNames ->
           [j \in DOMAIN r.spm_unit |-> r.spm_unit[j][AsecVariable(col)]]
      [] col = "reduced_price_school_meals" ->
           [j \in DOMAIN c["free_school_meals"] |->
               c["free_school_meals"][j] * 0]
      [] col = "fips" ->
           [j \in DOMAIN r.household |-> r.household[j].GESTFIPS]

\* The right-hand side of a statement raises although its raw fields and
\* its columns are there: on lines 98-101, a person_family_id that is no
\* family_id (KeyError), or a lookup that gives more weights than there are
\* persons because two families share a family_id (groupby: grouper and
\* axis must be the same length).
ValueRaises(col, c) ==
    /\ col = "tax_unit_weight"
    /\ \/ \E i \in DOMAIN c["person_family_id"] :
             c["person_family_id"][i] \notin Range(c["family_id"])
       \/ Len(LookupAll(c["family_id"], c["family_weight"],
                        c["person_family_id"]))
            # Len(c["person_tax_unit_id"])

ReadEvents(reads) == [i \in DOMAIN reads |-> <<"read", reads[i]>>]

\* Run the statements from the i-th on.  The result is the columns of the
\* file, the log, and whether the pass returned (ok) or raised.
RECURSIVE ExecFrom(_, _, _, _, _, _, _)
ExecFrom(stmts, i, r, m, c, lg, rnd) ==
    IF i > Len(stmts) THEN [cps |-> c, log |-> lg, ok |-> TRUE]
    ELSE LET s == stmts[i]
             lg2 == lg \o ReadEvents(s.reads)
         IN IF m \in s.needs
            THEN [cps |-> c, log |-> lg, ok |-> FALSE]
            ELSE IF Range(s.reads) \subseteq DOMAIN c /\ ~ValueRaises(s.col, c)
            THEN ExecFrom(stmts, i + 1, r, m,
                          (s.col :> ColumnValue(s.col, r, c, rnd)) @@ c,
                          Append(lg2, <<"write", s.col>>), rnd)
            ELSE [cps |-> c, log |-> lg2, ok |-> FALSE]

----------------------------------------------------------------------------
(* The initial state: generate(year) is about to run for the first time.   *)

\* well-formed raw data that varies in the keys or in the other income, or
\* the default tables lacking one table or field
Inputs ==
    {[raw |-> t, missing |-> "none"] : t \in KeyTableSets \cup IncomeTableSets}
      \cup {[raw |-> DefaultTables, missing |-> m] :
               m \in RawTables \cup AllRawFields}

\* well-formed raw data that varies in the raw age
AgeInputs == {[raw |-> t, missing |-> "none"] : t \in AgeTableSets}

NoColumns == <<>>

InitWith(inputs) ==
    /\ year \in Years
    /\ rawYears = InitialRawYears
    /\ startYears = InitialRawYears
    /\ \E in \in inputs : raw = in.raw /\ missing = in.missing
    /\ pc = "start"
    /\ rawOpen = "unopened"
    /\ cpsOpen = "unopened"
    /\ fileExists = FALSE
    /\ cps = NoColumns
    /\ log = <<>>
    /\ run = 1
    /\ prev = NoColumns

Init == InitWith(Inputs)

InitAge == InitWith(AgeInputs)

----------------------------------------------------------------------------
(* CPS.generate, lines 20-54, step by step *)

\* a variant of line 29 that generates the raw data whatever the year
AlwaysGenerate(y, ys) == TRUE

\* line 29: year not in RawCPS.years
NeedsRawGeneration(y, ys) == y \notin ys

\* lines 28-29
CheckYear ==
    /\ pc = "start"
    /\ pc' = IF NeedsRawGeneration(year, rawYears) THEN "rawgen" ELSE "load"
    /\ UNCHANGED <<year, rawYears, startYears, raw, missing, rawOpen,
                   cpsOpen, fileExists, cps, log, run, prev>>

\* RawCPS.years after RawCPS.generate(y) returned: the year is materialized
RawCPSGenerate(ys, y) == ys \cup {y}

\* lines 30-31: RawCPS.generate(year) materializes the year, or raises
RawGenerate ==
    /\ pc = "rawgen"
    /\ log' = Append(log, <<"call", "RawCPS.generate">>)
    /\ \/ rawYears' = RawCPSGenerate(rawYears, year) /\ pc' = "load"
       \/ rawYears' = rawYears /\ pc' = "failed"
    /\ UNCHANGED <<year, startYears, raw, missing, rawOpen, cpsOpen,
                   fileExists, cps, run, prev>>

\* line 33: raw_data = RawCPS.load(year), or the storage cannot be opened
Load ==
    /\ pc = "load"
    /\ log' = Append(log, <<"call", "RawCPS.load">>)
    /\ \/ rawOpen' = "open" /\ pc' = "open"
       \/ rawOpen' = rawOpen /\ pc' = "failed"
    /\ UNCHANGED <<year, rawYears, startYears, raw, missing, cpsOpen,
                   fileExists, cps, run, prev>>

\* line 34: cps = h5py.File(self.file(year), mode="w") creates the file or
\* truncates it, or the file cannot be opened
OpenOutput ==
    /\ pc = "open"
    /\ \/ /\ cpsOpen' = "open"
          /\ fileExists' = TRUE
          /\ cps' = NoColumns
          /\ pc' = "unpack"
       \/ /\ UNCHANGED <<cpsOpen, fileExists, cps>>
          /\ pc' = "failed"
    /\ UNCHANGED <<year, rawYears, startYears, raw, missing, rawOpen, log,
                   run, prev>>

\* lines 36-45: raw_data[entity] for the five tables
Unpack ==
    /\ pc = "unpack"
    /\ pc' = IF missing \in RawTables THEN "failed" ELSE "ids"
    /\ UNCHANGED <<year, rawYears, startYears, raw, missing, rawOpen,
                   cpsOpen, fileExists, cps, log, run, prev>>

\* one pass over the open file: all its statements, up to the first that
\* raises
RunPass(name, stmts, next, rnd) ==
    /\ LET res == ExecFrom(stmts, 1, raw, missing, cps,
                           Append(log, <<"pass", name>>), rnd)
       IN /\ cps' = res.cps
          /\ log' = res.log
          /\ pc' = IF res.ok THEN next ELSE "failed"
    /\ UNCHANGED <<year, rawYears, startYears, raw, missing, rawOpen,
                   cpsOpen, fileExists, run, prev>>

NoDraws == <<>>

\* line 47
AddIdVariables ==
    /\ pc = "ids"
    /\ RunPass("add_id_variables", IdStatements, "personal", NoDraws)

\* line 48; np.random.rand(len(person)) draws from the ambient generator
AddPersonalVariables ==
    /\ pc = "personal"
    /\ \E rnd \in [DOMAIN raw.person -> RandDraws] :
          RunPass("add_personal_variables", PersonalStatements, "income", rnd)

\* line 49
AddPersonalIncomeVariables ==
    /\ pc = "income"
    /\ RunPass("add_personal_income_variables", IncomeStatements, "spm",
               NoDraws)

\* line 50
AddSpmVariables ==
    /\ pc = "spm"
    /\ RunPass("add_spm_variables", SpmStatements, "household", NoDraws)

\* line 51
AddHouseholdVariables ==
    /\ pc = "household"
    /\ RunPass("add_household_variables", HouseholdStatements, "close_raw",
               NoDraws)

\* line 53
CloseRaw ==
    /\ pc = "close_raw"
    /\ rawOpen' = "closed"
    /\ pc' = "close_cps"
    /\ UNCHANGED <<year, rawYears, startYears, raw, missing, cpsOpen,
                   fileExists, cps, log, run, prev>>

\* line 54
CloseCps ==
    /\ pc = "close_cps"
    /\ cpsOpen' = "closed"
    /\ pc' = "done"
    /\ UNCHANGED <<year, rawYears, startYears, raw, missing, rawOpen,
                   fileExists, cps, log, run, prev>>

\* generate(year) is called again on the same, unchanged raw tables
Regenerate ==
    /\ pc = "done"
    /\ run < MaxRuns
    /\ run' = run + 1
    /\ prev' = cps
    /\ startYears' = rawYears
    /\ pc' = "start"
    /\ rawOpen' = "unopened"
    /\ cpsOpen' = "unopened"
    /\ log' = <<>>
    /\ UNCHANGED <<year, rawYears, raw, missing, fileExists, cps>>

Next ==
    \/ CheckYear
    \/ RawGenerate
    \/ Load
    \/ OpenOutput
    \/ Unpack
    \/ AddIdVariables
    \/ AddPersonalVariables
    \/ AddPersonalIncomeVariables
    \/ AddSpmVariables
    \/ AddHouseholdVariables
    \/ CloseRaw
    \/ CloseCps
    \/ Regenerate

Spec == Init /\ [][Next]_vars

\* the same program on the raw data that varies in the raw age
SpecAge == InitAge /\ [][Next]_vars

----------------------------------------------------------------------------
(* Vocabulary of the properties *)

Written(cols) == cols \subseteq DOMAIN cps

HasEvent(e) == \E i \in DOMAIN log : log[i] = e

PersonTaxUnits == {raw.person[i].TAX_ID : i \in DOMAIN raw.person}

\* the first person, in person-table row order, of tax unit t
FirstPersonOf(t) ==
    CHOOSE i \in DOMAIN raw.person :
        /\ raw.person[i].TAX_ID = t
        /\ \A h \in DOMAIN raw.person : raw.person[h].TAX_ID = t => i <= h

\* the family rows whose family_id is the person_family_id of person i
FamiliesOf(i) ==
    {j \in DOMAIN raw.family :
        raw.family[j].FH_SEQ * 10 + raw.family[j].FFPOS
          = raw.person[i].PH_SEQ * 10 + raw.person[i].PF_SEQ}

\* FSUP_WGT / 100 of the family of the first person of tax unit t
FirstMembersFamilyWeight(t) ==
    LET w == raw.family[CHOOSE j \in FamiliesOf(FirstPersonOf(t)) : TRUE].FSUP_WGT
    IN [int |-> w \div 100, frac |-> w % 100]

\* where groupby puts tax unit t: the groups are sorted by TAX_ID
GroupOf(t) == Cardinality({u \in PersonTaxUnits : u <= t})

\* C1: whenever add_id_variables has written tax_unit_weight, the value it
\* produced for each tax unit that has a person is the family weight
\* (FSUP_WGT / 100) of the first person of that tax unit in person-table row
\* order, also when later members belong to families of other weights.
C1_FirstMemberFamilyWeight ==
    Written({"tax_unit_weight"}) =>
        \A t \in PersonTaxUnits :
            cps["tax_unit_weight"][GroupOf(t)] = FirstMembersFamilyWeight(t)

\* C1 witness: a finished run in which two members of one tax unit belong
\* to families of different weights
C1_Witness ==
    /\ pc = "done"
    /\ \E i, h \in DOMAIN raw.person :
          /\ i < h
          /\ raw.person[i].TAX_ID = raw.person[h].TAX_ID
          /\ \E j \in FamiliesOf(i), g \in FamiliesOf(h) :
                raw.family[j].FSUP_WGT # raw.family[g].FSUP_WGT

\* C2: after generate completes, tax_unit_weight has one entry per row of
\* tax_unit_id and tax_unit_weight[i] is the weight of the tax unit
\* tax_unit_id[i], whatever the row order of the tax_unit table and of the
\* person table.
C2_TaxUnitWeightAligned ==
    pc = "done" =>
        /\ Len(cps["tax_unit_weight"]) = Len(cps["tax_unit_id"])
        /\ \A i \in DOMAIN cps["tax_unit_id"] :
              cps["tax_unit_weight"][i]
                = FirstMembersFamilyWeight(cps["tax_unit_id"][i])

NoDuplicates(s) == \A i, j \in DOMAIN s : i # j => s[i] # s[j]

MatchesOne(key, ids) == Cardinality({j \in DOMAIN ids : ids[j] = key}) = 1

\* the precondition of C3 on the raw tables
RawKeysWellFormed ==
    \A i \in DOMAIN raw.person :
        /\ Cardinality({j \in DOMAIN raw.family :
               /\ raw.family[j].FH_SEQ = raw.person[i].PH_SEQ
               /\ raw.family[j].FFPOS = raw.person[i].PF_SEQ}) = 1
        /\ Cardinality({j \in DOMAIN raw.household :
               raw.household[j].H_SEQ = raw.person[i].PH_SEQ}) = 1
        /\ Cardinality({j \in DOMAIN raw.tax_unit :
               raw.tax_unit[j].TAX_ID = raw.person[i].TAX_ID}) = 1
        /\ Cardinality({j \in DOMAIN raw.spm_unit :
               raw.spm_unit[j].SPM_ID = raw.person[i].SPM_ID}) = 1

KeyColumns ==
    {"person_id", "family_id", "household_id", "tax_unit_id", "spm_unit_id",
     "person_household_id", "person_family_id", "person_tax_unit_id",
     "person_spm_unit_id"}

\* C3: given raw tables in which every person matches exactly one family,
\* household, tax-unit and SPM-unit row, the keys add_id_variables writes
\* have no duplicate id within an entity table and each of a person's four
\* foreign keys is the id of exactly one row of its entity table.
C3_KeysUniqueAndResolved ==
    (Written(KeyColumns) /\ RawKeysWellFormed) =>
        /\ NoDuplicates(cps["person_id"])
        /\ NoDuplicates(cps["family_id"])
        /\ NoDuplicates(cps["household_id"])
        /\ NoDuplicates(cps["tax_unit_id"])
        /\ NoDuplicates(cps["spm_unit_id"])
        /\ \A i \in DOMAIN cps["person_id"] :
              /\ MatchesOne(cps["person_family_id"][i], cps["family_id"])
              /\ MatchesOne(cps["person_household_id"][i], cps["household_id"])
              /\ MatchesOne(cps["person_tax_unit_id"][i], cps["tax_unit_id"])
              /\ MatchesOne(cps["person_spm_unit_id"][i], cps["spm_unit_id"])

\* C4: no run of generate ends, by returning or by raising, with the raw
\* source handle or the output file handle still open.
C4_HandlesClosedAtExit ==
    pc \in {"done", "failed"} => (rawOpen # "open" /\ cpsOpen # "open")

\* C5: when a run fails after the output file was opened for writing, the
\* year's artifact does not exist or is not a partial one: no end state
\* leaves a file holding only a subset of the required columns.  (The code
\* writes no marker of incompleteness into the file.)
C5_NoPartialArtifact ==
    (pc = "failed" /\ cpsOpen = "open") =>
        (~fileExists \/ RequiredColumns \subseteq DOMAIN cps)


PassOrder ==
    <<"add_id_variables", "add_personal_variables",
      "add_personal_income_variables", "add_spm_variables",
      "add_household_variables">>

\* the passes the current run started, in the order it started them
RECURSIVE PassesOf(_)
PassesOf(lg) ==
    IF lg = <<>> THEN <<>>
    ELSE LET n == Len(lg)
             front == PassesOf(SubSeq(lg, 1, n - 1))
         IN IF lg[n][1] = "pass" THEN Append(front, lg[n][2]) ELSE front

\* C6: in every run, RawCPS.generate(year) is called if and only if the
\* year was not among the materialized raw years when the run started; the
\* call comes before the raw tables are loaded; the passes run in the order
\* identity/weights,
\* demographics, personal income, SPM variables, household variables; and
\* every read of a column of the output file comes after the write of that
\* column.
C6_OrderOfSteps ==
    /\ pc \notin {"start", "rawgen"} =>
          (HasEvent(<<"call", "RawCPS.generate">>) <=> year \notin startYears)
    /\ \A j \in DOMAIN log :
          log[j] = <<"call", "RawCPS.generate">> =>
              \A i \in 1..j : log[i] # <<"call", "RawCPS.load">>
    /\ LET ps == PassesOf(log)
       IN /\ Len(ps) <= Len(PassOrder)
          /\ ps = SubSeq(PassOrder, 1, Len(ps))
    /\ \A j \in DOMAIN log :
          log[j][1] = "read" =>
              \E i \in 1..(j - 1) : log[i] = <<"write", log[j][2]>>

\* C6 witness: a run that had to generate the raw year has finished, having
\* read free_school_meals back from the file
C6_Witness ==
    /\ pc = "done"
    /\ HasEvent(<<"call", "RawCPS.generate">>)
    /\ HasEvent(<<"read", "free_school_meals">>)

\* C7: for every person row, e01500 is OI_VAL when OI_OFF is 2 or 13 and 0
\* otherwise, e00800 is OI_VAL when OI_OFF is 20 and 0 otherwise; at most one
\* of the two is nonzero, and both are 0 when the code is none of 2, 13, 20.
C7_IncomeDisaggregation ==
    Written({"e01500", "e00800"}) =>
        /\ Len(cps["e01500"]) = Len(raw.person)
        /\ Len(cps["e00800"]) = Len(raw.person)
        /\ \A i \in DOMAIN raw.person :
              LET code == raw.person[i].OI_OFF
                  amount == raw.person[i].OI_VAL
              IN /\ cps["e01500"][i]
                      = IF code = 2 \/ code = 13 THEN amount ELSE 0
                 /\ cps["e00800"][i] = IF code = 20 THEN amount ELSE 0
                 /\ cps["e01500"][i] = 0 \/ cps["e00800"][i] = 0
                 /\ code \notin {2, 13, 20} =>
                       (cps["e01500"][i] = 0 /\ cps["e00800"][i] = 0)
                 /\ (code = 2 /\ amount = 500) =>
                       (cps["e01500"][i] = 500 /\ cps["e00800"][i] = 0)
                 /\ (code = 20 /\ amount = 300) =>
                       (cps["e01500"][i] = 0 /\ cps["e00800"][i] = 300)
                 /\ (code = 7 /\ amount = 100) =>
                       (cps["e01500"][i] = 0 /\ cps["e00800"][i] = 0)

\* C7 witness: the income pass has run on a table with a row of type code
\* 20 and amount 300 and a row of type code 7 and amount 100
C7_Witness ==
    /\ Written({"e01500", "e00800"})
    /\ \E i, j \in DOMAIN raw.person :
          /\ raw.person[i].OI_OFF = 20 /\ raw.person[i].OI_VAL = 300
          /\ raw.person[j].OI_OFF = 7 /\ raw.person[j].OI_VAL = 100

\* C8: the age column has one entry per person row; it is the raw age
\* A_AGE exactly when A_AGE is outside [80, 85], and a value v with
\* 80 <= v < 85 when A_AGE is in [80, 85].
C8_AgeRecoding ==
    Written({"age"}) =>
        /\ Len(cps["age"]) = Len(raw.person)
        /\ \A i \in DOMAIN raw.person :
              LET a == raw.person[i].A_AGE
              IN IF a < 80 \/ a > 85
                 THEN cps["age"][i] = a * Pow2(MantissaBits)
                 ELSE /\ 80 * Pow2(MantissaBits) <= cps["age"][i]
                      /\ cps["age"][i] < 85 * Pow2(MantissaBits)

SpmColumnsWritten == Written(SpmNames)

\* the fixed rename table maps its raw fields one-to-one onto distinct
\* canonical names, and each canonical column is the raw field, row by row
SpmRenamesOneToOne ==
    /\ \A i, j \in DOMAIN SPM_RENAMES :
          i # j => (SPM_RENAMES[i][1] # SPM_RENAMES[j][1]
                      /\ SPM_RENAMES[i][2] # SPM_RENAMES[j][2])
    /\ \A i \in DOMAIN SPM_RENAMES :
          /\ Len(cps[SPM_RENAMES[i][1]]) = Len(raw.spm_unit)
          /\ \A u \in DOMAIN raw.spm_unit :
                cps[SPM_RENAMES[i][1]][u] = raw.spm_unit[u][SPM_RENAMES[i][2]]

\* C9 as stated: add_spm_variables applies a rename table of fourteen raw
\* SPM-unit fields, each mapped one-to-one onto a distinct canonical name
\* with no value transform.
C9_FourteenRenames ==
    SpmColumnsWritten =>
        (Len(SPM_RENAMES) = 14 /\ Cardinality(SpmNames) = 14
           /\ SpmRenamesOneToOne)

\* C9 as amended: add_spm_variables applies a rename table of thirteen raw
\* SPM-unit fields, each mapped one-to-one onto a distinct canonical name
\* with no value transform: the canonical column at row i is the raw field
\* at row i, and no two canonical names share a raw field.
C9_ThirteenRenames ==
    SpmColumnsWritten =>
        (Len(SPM_RENAMES) = 13 /\ Cardinality(SpmNames) = 13
           /\ SpmRenamesOneToOne)

\* C9 witness: the SPM pass has run over two SPM units
C9_Witness ==
    /\ SpmColumnsWritten
    /\ Len(raw.spm_unit) >= 2
    /\ pc = "household"

\* C10: a second run of generate(year) on the same raw tables leaves the
\* same columns in the file as the run before it, the ages of the top-coded
\* rows included.  (generate takes no seed: each run draws from the ambient
\* generator.)
C10_RegenerationReproduces ==
    (pc = "done" /\ run > 1) => cps = prev

====
